---- MODULE Spec2Model ----
(***************************************************************************)
(* A model of clover.py: the catalog discoverer (get_subpages), the        *)
(* pagination crawler and item extractor (scrape_media_items), the asset   *)
(* fetcher (download_mp3) and the driver (main).                           *)
(*                                                                         *)
(* Strings are modelled as sequences of tokens.  A token is a run of       *)
(* characters that the program never looks inside ("https://", a host      *)
(* name, a word, "/").  The tokens used start with pairwise different      *)
(* characters, so comparing two token sequences token by token on the      *)
(* code point of the first character is the comparison Python makes on     *)
(* the character strings, and a substring test on tokens is the substring  *)
(* test on characters.                                                     *)
(***************************************************************************)
EXTENDS Integers, Sequences, FiniteSets, TLC

VARIABLES
    links,          \* hrefs of the <a> elements of the entry page, DOM order
    subpages,       \* main: the list returned by get_subpages
    cat,            \* main: index in subpages of the catalog being processed
    pc,             \* control location of main / scrape_media_items
    page_num,       \* scrape_media_items: page_num
    seen_ids,       \* scrape_media_items: seen_ids
    url,            \* scrape_media_items: url of the listing page
    media_buttons,  \* scrape_media_items: the .media-card elements of the page
    media_ids,      \* scrape_media_items: media_ids
    idx,            \* scrape_media_items: idx of the card being processed
    item,           \* the card's mp3_url, texts, cleaned values and filename
    err,            \* the exception being handled (text of e), "" when none
    files,          \* the file system: path -> content of the asset files
    metadata,       \* folder -> number of blocks in its metadata.txt
    failed,         \* folder -> number of blocks in its failed.txt
    appended,       \* the block the latest step appended to a log, if any
    printed,        \* the status line the latest step printed, if any
    status,         \* download_mp3: resp.status, 0 while there is no response
    dl_result,      \* what the call of download_mp3 gave its caller
    requests,       \* history: the listing URLs requested for this catalog
    served_ids,     \* history: identifiers of all cards served for this catalog
    first_repeat,   \* history: first page that repeated a served identifier
    attempted,      \* history: positions of this page passed to extraction
    started,        \* history: catalogs whose processing was started, in order
    shown,          \* history: cards on pages of new items shown so far
    aborted,        \* history: catalogs whose processing ended by an exception
    tally,          \* history: what happened to the card handled last
    player,         \* the page: what the media player shows, if anything
    pending,        \* the page: a click whose player update is still to come
    own             \* history: what the card clicked last shows when activated

vars == <<links, subpages, cat, pc, page_num, seen_ids, url, media_buttons,
          media_ids, idx, item, err, files, metadata, failed, appended,
          printed, status, dl_result, requests, served_ids,
          first_repeat, attempted, started, shown, aborted, tally,
          player, pending, own>>

mainVars == <<links, subpages, cat, started, aborted>>
pageVars == <<page_num, seen_ids, url, media_buttons, media_ids, idx>>
diskVars == <<files, metadata, failed>>
dlVars == <<status, dl_result>>
histVars == <<requests, served_ids, first_repeat, attempted, shown, tally>>
playerVars == <<player, pending, own>>
progVars == <<mainVars, pageVars, item, err, diskVars, dlVars, histVars,
              playerVars>>

----------------------------------------------------------------------------
(* Bounds of the model.                                                    *)

MaxLinks == 3      \* hyperlinks on the entry page
MaxItems == 2      \* item cards on one listing page, and item cards on
                   \* pages of new items over a whole run
MaxText == 3       \* tokens of a text given to sanitize_filename
MaxBlanks == 2     \* white space characters in a row in a date text

----------------------------------------------------------------------------
(* Strings as token sequences.                                             *)

\* Code point of the first character of a token (Python compares str by
\* code point).
Ord(tok) ==
    CASE tok = "#top"     -> 35
      [] tok = "-"        -> 45
      [] tok = "/"        -> 47
      [] tok = "?u="      -> 63
      [] tok = "?page="   -> 63
      [] tok = "events"   -> 101
      [] tok = "https://" -> 104
      [] tok = "media"    -> 109
      [] tok = "other.org" -> 111
      [] tok = "providencebiblefellowship.com" -> 112
      [] tok = "seminars" -> 115
      [] OTHER            -> 0

\* s < t for Python str
RECURSIVE StrLess(_, _)
StrLess(s, t) ==
    IF t = << >> THEN FALSE
    ELSE IF s = << >> THEN TRUE
    ELSE IF Head(s) = Head(t) THEN StrLess(Tail(s), Tail(t))
    ELSE Ord(Head(s)) < Ord(Head(t))

\* needle in s
IsPrefix(p, s) == Len(p) <= Len(s) /\ SubSeq(s, 1, Len(p)) = p
HasSubstring(s, needle) ==
    \E i \in 1..(Len(s) + 1) : IsPrefix(needle, SubSeq(s, i, Len(s)))

\* s.strip("/")
RECURSIVE LStripSlash(_)
LStripSlash(s) ==
    IF s # << >> /\ Head(s) = "/" THEN LStripSlash(Tail(s)) ELSE s
RECURSIVE RStripSlash(_)
RStripSlash(s) ==
    IF s # << >> /\ s[Len(s)] = "/"
    THEN RStripSlash(SubSeq(s, 1, Len(s) - 1)) ELSE s
StripSlash(s) == RStripSlash(LStripSlash(s))

\* s.split("/")[-1]
RECURSIVE LastSegment(_)
LastSegment(s) ==
    IF \E i \in 1..Len(s) : s[i] = "/"
    THEN LastSegment(Tail(s))
    ELSE s

\* sorted(S) for a set S of strings
RECURSIVE Sorted(_)
Sorted(S) ==
    IF S = {} THEN << >>
    ELSE LET m == CHOOSE x \in S : \A y \in S \ {x} : StrLess(x, y)
         IN  <<m>> \o Sorted(S \ {m})

\* set(list)
Range(s) == {s[i] : i \in 1..Len(s)}

\* str(n) for the small numbers of the model
Str(n) ==
    CASE n = 0 -> "0" [] n = 1 -> "1" [] n = 2 -> "2" [] n = 3 -> "3"
      [] n = 4 -> "4" [] n = 5 -> "5" [] n = 6 -> "6" [] n = 7 -> "7"
      [] n = 8 -> "8" [] OTHER -> "9"

----------------------------------------------------------------------------
(* URLs.                                                                   *)

Scheme == "https://"
Domain == "providencebiblefellowship.com"
START_URL == <<Scheme, Domain, "/", "seminars">>

\* The hrefs an entry page may carry.
LinkPool ==
    { START_URL,
      START_URL \o <<"/">>,
      START_URL \o <<"#top">>,
      <<Scheme, Domain, "/", "events">>,
      <<Scheme, Domain, "/", "events", "/">>,
      <<Scheme, Domain, "/", "media">>,
      <<Scheme, "other.org", "/", "media">>,
      <<Scheme, "other.org", "/", "?u=", Domain, "/", "events">> }

\* urllib.parse.urlparse(u): the netloc runs from the scheme to the first
\* "/", "?" or "#"; the path from there to the first "?" or "#".
QueryOrFragment == {"?u=", "?page=", "#top"}
RECURSIVE UpTo(_, _)
UpTo(s, stops) ==
    IF s = << >> \/ Head(s) \in stops THEN << >>
    ELSE <<Head(s)>> \o UpTo(Tail(s), stops)
UrlNetloc(u) == UpTo(Tail(u), {"/"} \cup QueryOrFragment)
UrlPath(u) ==
    UpTo(SubSeq(u, 2 + Len(UrlNetloc(u)), Len(u)), QueryOrFragment)

\* get_subpages, line 16: the filter, the set and the sort
KeepLink(link) ==
    /\ HasSubstring(link, <<Domain, "/">>)
    /\ StripSlash(link) # StripSlash(START_URL)
get_subpages(ls) == Sorted({l \in Range(ls) : KeepLink(l)})

\* scrape_media_items, lines 40-41
CatalogSlug(base_url) == LastSegment(StripSlash(UrlPath(base_url)))
CatalogFolder(base_url) == <<"downloads", "/">> \o CatalogSlug(base_url)

----------------------------------------------------------------------------
(* Text of the media player and the file names derived from it.            *)

\* str.lower() on a word
Lower(tok) ==
    CASE tok = "Grace"  -> "grace"
      [] tok = "Bob"    -> "bob"
      [] tok = "Romans" -> "romans"
      [] OTHER          -> tok

\* Tokens made of characters slugify replaces by the separator.
Separators == {" ", "!", ",", "-", "_"}

\* slugify(text, lowercase=True, separator="-"): lower-case, every run of
\* other characters becomes one "-", leading and trailing "-" are dropped.
RECURSIVE Dashed(_)
Dashed(t) ==
    IF t = << >> THEN << >>
    ELSE IF Head(t) \in Separators
         THEN LET rest == Dashed(Tail(t))
              IN  IF rest # << >> /\ Head(rest) = "-" THEN rest
                  ELSE <<"-">> \o rest
         ELSE <<Lower(Head(t))>> \o Dashed(Tail(t))
RECURSIVE StripDash(_)
StripDash(t) ==
    IF t # << >> /\ Head(t) = "-" THEN StripDash(Tail(t))
    ELSE IF t # << >> /\ t[Len(t)] = "-"
         THEN StripDash(SubSeq(t, 1, Len(t) - 1))
         ELSE t
slugify(text) == StripDash(Dashed(text))

\* line 20
sanitize_filename(text) ==
    slugify(IF text = << >> THEN <<"untitled">> ELSE text)

\* only the leading white space is dropped
RECURSIVE StripSpace_Leading(_)
StripSpace_Leading(t) ==
    IF t # << >> /\ Head(t) = " " THEN StripSpace_Leading(Tail(t)) ELSE t

\* str.strip() on the date text
RECURSIVE StripSpace(_)
StripSpace(t) ==
    IF t # << >> /\ Head(t) = " " THEN StripSpace(Tail(t))
    ELSE IF t # << >> /\ t[Len(t)] = " "
         THEN StripSpace(SubSeq(t, 1, Len(t) - 1))
         ELSE t

\* %B: a full month name in any letter case; its number for %m
MonthNumber(tok) ==
    CASE tok \in {"February", "february"} -> "02"
      [] tok \in {"March", "march"}       -> "03"
      [] tok \in {"April", "april"}       -> "04"
      [] OTHER -> ""
\* %d: a day of one or two digits, 1 to 31; its two digits for strftime
TwoDigits(tok) ==
    CASE tok \in {"3", "03"} -> "03" [] tok = "17" -> "17"
      [] tok = "30" -> "30" [] OTHER -> ""
DayValue(tok) ==
    CASE tok \in {"3", "03"} -> 3 [] tok = "17" -> 17 [] tok = "30" -> 30
      [] OTHER -> 0
\* %Y: four digits
Years == {"2024"}
\* days of the month in a year of Years (2024 is a leap year)
DaysIn(mm) == CASE mm = "02" -> 29 [] mm = "04" -> 30 [] OTHER -> 31

\* a blank of the format matches any run of white space
RECURSIVE CollapseBlanks(_)
CollapseBlanks(t) ==
    IF Len(t) < 2 THEN t
    ELSE IF t[1] = " " /\ t[2] = " " THEN CollapseBlanks(Tail(t))
    ELSE <<Head(t)>> \o CollapseBlanks(Tail(t))

\* lines 22-26: strptime(text.strip(), "%B %d, %Y").strftime("%Y-%m-%d"),
\* "unknown-date" when strptime raises (no match, or a day the month does
\* not have)
get_date_slug(text) ==
    LET t == CollapseBlanks(StripSpace(text))
    IN  IF /\ Len(t) = 6
           /\ MonthNumber(t[1]) # "" /\ t[2] = " "
           /\ TwoDigits(t[3]) # "" /\ t[4] = "," /\ t[5] = " "
           /\ t[6] \in Years
           /\ DayValue(t[3]) <= DaysIn(MonthNumber(t[1]))
        THEN <<t[6], "-", MonthNumber(t[1]), "-", TwoDigits(t[3])>>
        ELSE <<"unknown", "-", "date">>

\* os.path.splitext(mp3_url)[-1]: from the last dot of the last path
\* segment to the end of the string
ExtTokens == {".mp3"}
splitext(u) ==
    LET seg  == LastSegment(u)
        dots == {i \in 1..Len(seg) : seg[i] \in ExtTokens}
    IN  IF dots = {} THEN << >>
        ELSE SubSeq(seg, CHOOSE i \in dots : \A j \in dots : j <= i, Len(seg))

\* An element of the page: present with a text, or absent (query_selector
\* gives None).
El(text) == [present |-> TRUE, text |-> text]
NoEl == [present |-> FALSE, text |-> << >>]

\* What the player shows once a card is activated: the source URL and the
\* four metadata elements.
MediaPool ==
    { [src |-> <<Scheme, "cdn", "/", "a", ".mp3">>,
       title |-> El(<<"Grace">>),
       date |-> El(<<"March", " ", "3", ",", " ", "2024">>),
       speaker |-> El(<<"Bob">>), series |-> El(<<"Romans">>)],
      [src |-> <<Scheme, "cdn", "/", "b", ".mp3">>,
       title |-> El(<<"grace", "!">>),
       date |-> El(<<" ", "March", " ", "3", ",", " ", "2024">>),
       speaker |-> El(<<"Bob">>), series |-> El(<<"Romans">>)],
      [src |-> <<Scheme, "cdn", "/", "c", ".mp3", "?t=1">>,
       title |-> NoEl, date |-> NoEl, speaker |-> NoEl, series |-> NoEl] }

\* the page before any card was activated: no source in the player, none
\* of the four elements
NoPlayer == [src |-> << >>, title |-> NoEl, date |-> NoEl, speaker |-> NoEl,
             series |-> NoEl]

\* lines 78-88: the texts read, with their fallbacks
ReadTitle(m, i) ==
    IF m.title.present THEN m.title.text ELSE <<"untitled", "-", Str(i + 1)>>
ReadDate(m) == IF m.date.present THEN m.date.text ELSE << >>
ReadSpeaker(m) ==
    IF m.speaker.present THEN m.speaker.text ELSE <<"unknown", "-", "speaker">>
ReadSeries(m) ==
    IF m.series.present THEN m.series.text ELSE <<"unknown", "-", "series">>

\* lines 91-97
Filename(slug, title, date, speaker, series, mp3_url) ==
    slug \o <<"_">> \o get_date_slug(date)
         \o <<"_">> \o sanitize_filename(series)
         \o <<"_">> \o sanitize_filename(speaker)
         \o <<"_">> \o sanitize_filename(title)
         \o splitext(mp3_url)

\* os.path.join(folder, name)
PathJoin(folder, name) == folder \o <<"/">> \o name

----------------------------------------------------------------------------
(* The site's listing pages.                                               *)

\* A .media-card element: its data-id attribute, when it has one.
CardPool ==
    { [has_id |-> TRUE, data_id |-> "a"],
      [has_id |-> TRUE, data_id |-> "b"],
      [has_id |-> FALSE, data_id |-> ""] }

\* a page without cards is taken as loaded
CardCounts_WithEmpty == 0..MaxItems

\* line 50: wait_for_selector returns once one .media-card is there
CardCounts == 1..MaxItems

CardLists == UNION {[1..n -> CardPool] : n \in CardCounts}

\* positions counted from 1, as in the messages of lines 118 and 121
ResolveId_FromOne(card, i) ==
    IF card.has_id /\ card.data_id # "" THEN <<card.data_id>>
    ELSE <<"idx-", Str(i + 1)>>

\* lines 56-59: data-id, or idx-<position> when it is missing or empty
ResolveId(card, i) ==
    IF card.has_id /\ card.data_id # "" THEN <<card.data_id>>
    ELSE <<"idx-", Str(i)>>
MediaIds(buttons) == [i \in 1..Len(buttons) |-> ResolveId(buttons[i], i - 1)]

\* a repeat only when every identifier of the page was seen
IsRepeat_WhenAllSeen(ids, seen) == \A i \in 1..Len(ids) : ids[i] \in seen

\* line 60
IsRepeat(ids, seen) == \E i \in 1..Len(ids) : ids[i] \in seen

\* the identifiers of the page replace the set
SeenAfter_Replace(seen, ids) == Range(ids)

\* line 63: seen_ids.update(media_ids)
SeenAfter(seen, ids) == seen \cup Range(ids)

\* the query parameter on page 1 too
PageUrl_AlwaysQuery(base_url, n) == base_url \o <<"?page=", Str(n)>>

\* line 48
PageUrl(base_url, n) ==
    IF n > 1 THEN base_url \o <<"?page=", Str(n)>> ELSE base_url

----------------------------------------------------------------------------
(* The file system.                                                        *)

Count(log, folder) == IF folder \in DOMAIN log THEN log[folder] ELSE 0
\* the log is opened with "w": the block replaces what was there
Appended_Rewritten(log, folder) ==
    [f \in DOMAIN log \cup {folder} |-> IF f = folder THEN 1 ELSE log[f]]

\* open(path, "a") and the writes of one block
Appended(log, folder) ==
    [f \in DOMAIN log \cup {folder} |->
        IF f = folder THEN Count(log, folder) + 1 ELSE log[f]]
Written(fs, path, content) ==
    [p \in DOMAIN fs \cup {path} |-> IF p = path THEN content ELSE fs[p]]

\* the file is never found
FileExists_Never(path) == FALSE

\* line 100
FileExists(path) == path \in DOMAIN files

NoItem == [mp3_url |-> << >>, title |-> << >>, date |-> << >>,
           speaker |-> << >>, series |-> << >>, clean_title |-> << >>,
           clean_speaker |-> << >>, clean_series |-> << >>,
           date_slug |-> << >>, filename |-> << >>]
NoBlock == << >>
NoTally == [found |-> FALSE, fetch |-> "no", meta |-> 0, failed |-> 0,
            error |-> ""]

base_url == subpages[cat]
slug == CatalogSlug(base_url)
folder == CatalogFolder(base_url)
filepath == PathJoin(folder, item.filename)

----------------------------------------------------------------------------
(* Initial states.                                                         *)

LinkLists == UNION {[1..n -> LinkPool] : n \in 0..MaxLinks}

\* Entry pages for the runs in which the catalogs are crawled.
CrawlLinks ==
    { <<START_URL, <<Scheme, Domain, "/", "media">>,
        <<Scheme, Domain, "/", "events">>,
        <<Scheme, Domain, "/", "media">>>> }

InitWith(ls) ==
    /\ links \in ls
    /\ subpages = << >>
    /\ cat = 0
    /\ pc = "discover"
    /\ page_num = 0
    /\ seen_ids = {}
    /\ url = << >>
    /\ media_buttons = << >>
    /\ media_ids = << >>
    /\ idx = 0
    /\ item = NoItem
    /\ err = ""
    /\ files = << >>
    /\ metadata = << >>
    /\ failed = << >>
    /\ appended = NoBlock
    /\ printed = ""
    /\ status = 0
    /\ dl_result = ""
    /\ requests = << >>
    /\ served_ids = {}
    /\ first_repeat = 0
    /\ attempted = << >>
    /\ started = << >>
    /\ shown = 0
    /\ aborted = {}
    /\ tally = NoTally
    /\ player = NoPlayer
    /\ pending = FALSE
    /\ own = NoPlayer

Init == InitWith(CrawlLinks)
InitDiscover == InitWith(LinkLists)

\* A step that prints `line` (or nothing, "") and appends to no log.
Says(line) == printed' = line /\ appended' = NoBlock

----------------------------------------------------------------------------
(* main, lines 131-146.                                                    *)

\* line 137: get_subpages returns
GetSubpages ==
    /\ pc = "discover"
    /\ subpages' = get_subpages(links)
    /\ Says("found-subpages")
    /\ pc' = "main_loop"
    /\ UNCHANGED playerVars
    /\ UNCHANGED <<links, cat, started, aborted, pageVars, item, err,
                   diskVars, dlVars, histVars>>

\* line 137: page.goto or eval_on_selector_all raises; nothing in main
\* catches it
DiscoverRaises ==
    /\ pc = "discover"
    /\ pc' = "crashed"
    /\ err' = "discover"
    /\ Says("")
    /\ UNCHANGED playerVars
    /\ UNCHANGED <<mainVars, pageVars, item, diskVars, dlVars, histVars>>

\* line 140 and lines 40-45: the next catalog is started
StartCatalog ==
    /\ pc = "main_loop"
    /\ cat < Len(subpages)
    /\ cat' = cat + 1
    /\ started' = Append(started, subpages[cat + 1])
    /\ page_num' = 1
    /\ seen_ids' = {}
    /\ requests' = << >>
    /\ served_ids' = {}
    /\ first_repeat' = 0
    /\ attempted' = << >>
    /\ Says("")
    /\ pc' = "goto"
    /\ UNCHANGED playerVars
    /\ UNCHANGED <<links, subpages, aborted, url, media_buttons, media_ids,
                   idx, item, err, diskVars, dlVars, shown, tally>>

\* scrape_media_items is left, by return or by an exception: its local
\* variables are gone, and the history of the catalog with them
Left ==
    /\ page_num' = 0
    /\ seen_ids' = {}
    /\ url' = << >>
    /\ media_buttons' = << >>
    /\ media_ids' = << >>
    /\ idx' = 0
    /\ requests' = << >>
    /\ served_ids' = {}
    /\ first_repeat' = 0
    /\ attempted' = << >>
    /\ tally' = NoTally

\* the exception of a catalog leaves main
AfterCatalogError_Propagates == "crashed"

\* where control goes after lines 143-144
AfterCatalogError == "main_loop"

\* lines 143-144: the exception of a catalog is caught and reported
CatalogFailed ==
    /\ pc = "cat_except"
    /\ Says("failed-to-process")
    /\ err' = ""
    /\ aborted' = aborted \cup {base_url}
    /\ Left
    /\ pc' = AfterCatalogError
    /\ UNCHANGED playerVars
    /\ UNCHANGED <<links, subpages, cat, started, item, diskVars, dlVars,
                   shown>>

\* line 146
BrowserClose ==
    /\ pc = "main_loop"
    /\ cat >= Len(subpages)
    /\ Says("")
    /\ pc' = "closed"
    /\ UNCHANGED progVars

----------------------------------------------------------------------------
(* scrape_media_items, lines 47-63: one listing page.                      *)

\* lines 48-49: the listing page is requested and loads
Goto ==
    /\ pc = "goto"
    /\ page_num <= MaxItems + 1
    /\ url' = PageUrl(base_url, page_num)
    /\ requests' = Append(requests, PageUrl(base_url, page_num))
    /\ Says("")
    /\ player' = NoPlayer
    /\ pending' = FALSE
    /\ own' = NoPlayer
    /\ pc' = "wait_cards"
    /\ UNCHANGED <<mainVars, page_num, seen_ids, media_buttons, media_ids,
                   idx, item, err, diskVars, dlVars, served_ids,
                   first_repeat, attempted, shown, tally>>

\* line 49: the navigation raises
GotoRaises ==
    /\ pc = "goto"
    /\ page_num <= MaxItems + 1
    /\ url' = PageUrl(base_url, page_num)
    /\ requests' = Append(requests, PageUrl(base_url, page_num))
    /\ err' = "goto"
    /\ Says("")
    /\ pc' = "cat_except"
    /\ UNCHANGED playerVars
    /\ UNCHANGED <<mainVars, page_num, seen_ids, media_buttons, media_ids,
                   idx, item, diskVars, dlVars, served_ids, first_repeat,
                   attempted, shown, tally>>

\* line 50: no card shows up within the timeout
WaitCardsTimeout ==
    /\ pc = "wait_cards"
    /\ err' = "cards-timeout"
    /\ Says("")
    /\ pc' = "cat_except"
    /\ UNCHANGED playerVars
    /\ UNCHANGED <<mainVars, pageVars, item, diskVars, dlVars, histVars>>

\* lines 50-59: the page shows its cards; their identifiers are resolved.
\* The site shows at most MaxItems cards on pages of new items in a run.
ServePage ==
    /\ pc = "wait_cards"
    /\ \E cards \in CardLists :
          LET ids == MediaIds(cards)
              rep == \E i \in 1..Len(ids) : ids[i] \in served_ids
          IN  /\ rep \/ shown + Len(cards) <= MaxItems
              /\ shown' = IF rep THEN shown ELSE shown + Len(cards)
              /\ media_buttons' = cards
              /\ media_ids' = ids
              /\ served_ids' = served_ids \cup Range(ids)
              /\ first_repeat' = IF first_repeat = 0 /\ rep
                                 THEN Len(requests) ELSE first_repeat
    /\ attempted' = << >>
    /\ Says("visiting")
    /\ pc' = "check_repeat"
    /\ UNCHANGED playerVars
    /\ UNCHANGED <<mainVars, page_num, seen_ids, url, idx, item, err,
                   diskVars, dlVars, requests, tally>>

\* lines 60-62: an identifier of the page was seen before
RepeatDetected ==
    /\ pc = "check_repeat"
    /\ IsRepeat(media_ids, seen_ids)
    /\ Says("repeating-page")
    /\ pc' = "stopped"
    /\ UNCHANGED progVars

\* line 62: break; scrape_media_items returns
Break ==
    /\ pc = "stopped"
    /\ Says("")
    /\ Left
    /\ pc' = "main_loop"
    /\ UNCHANGED playerVars
    /\ UNCHANGED <<mainVars, item, err, diskVars, dlVars, shown>>

\* lines 60, 63, 65: the page is new; its identifiers join seen_ids
NewPage ==
    /\ pc = "check_repeat"
    /\ ~IsRepeat(media_ids, seen_ids)
    /\ seen_ids' = SeenAfter(seen_ids, media_ids)
    /\ idx' = 0
    /\ Says("")
    /\ pc' = "item"
    /\ UNCHANGED playerVars
    /\ UNCHANGED <<mainVars, page_num, url, media_buttons, media_ids, item,
                   err, diskVars, dlVars, histVars>>

\* lines 125-126: every card of the page was handled
NextPage ==
    /\ pc = "item"
    /\ idx >= Len(media_buttons)
    /\ page_num' = page_num + 1
    /\ tally' = NoTally
    /\ Says("next-page")
    /\ pc' = "goto"
    /\ UNCHANGED playerVars
    /\ UNCHANGED <<mainVars, seen_ids, url, media_buttons, media_ids, idx,
                   item, err, diskVars, dlVars, requests, served_ids,
                   first_repeat, attempted, shown>>

----------------------------------------------------------------------------
(* scrape_media_items, lines 65-123: one card.                             *)

\* lines 67-68: the card is scrolled into view and clicked
Click ==
    /\ pc = "item"
    /\ idx < Len(media_buttons)
    /\ attempted' = Append(attempted, idx)
    /\ tally' = NoTally
    /\ Says("")
    /\ pc' = "wait_player"
    /\ UNCHANGED playerVars
    /\ UNCHANGED <<mainVars, pageVars, item, err, diskVars, dlVars,
                   requests, served_ids, first_repeat, shown>>

\* lines 67-68: scrolling or clicking raises
ClickRaises ==
    /\ pc = "item"
    /\ idx < Len(media_buttons)
    /\ attempted' = Append(attempted, idx)
    /\ tally' = NoTally
    /\ err' = "click"
    /\ Says("")
    /\ pc' = "except"
    /\ UNCHANGED playerVars
    /\ UNCHANGED <<mainVars, pageVars, item, diskVars, dlVars, requests,
                   served_ids, first_repeat, shown>>

\* lines 70-73: the player's source shows an .mp3
WaitPlayer ==
    /\ pc = "wait_player"
    /\ Says("")
    /\ pc' = "read"
    /\ UNCHANGED progVars

\* lines 70-73: it does not within the timeout
WaitPlayerTimeout ==
    /\ pc = "wait_player"
    /\ err' = "player-timeout"
    /\ Says("")
    /\ pc' = "except"
    /\ UNCHANGED playerVars
    /\ UNCHANGED <<mainVars, pageVars, item, diskVars, dlVars, histVars>>

\* lines 75-98: the values of a card whose source URL was read as mp3_url
\* and whose texts are read from a player showing m
Extracted(mp3_url, m) ==
    LET title   == ReadTitle(m, idx)
        date    == ReadDate(m)
        speaker == ReadSpeaker(m)
        series  == ReadSeries(m)
    IN  [mp3_url |-> mp3_url, title |-> title, date |-> date,
         speaker |-> speaker, series |-> series,
         clean_title |-> sanitize_filename(title),
         clean_speaker |-> sanitize_filename(speaker),
         clean_series |-> sanitize_filename(series),
         date_slug |-> get_date_slug(date),
         filename |-> Filename(slug, title, date, speaker, series, mp3_url)]

\* lines 75-98: the source URL and the texts are read, the file name is
\* derived; the player shows some item of the site
ReadFields ==
    /\ pc = "read"
    /\ \E m \in MediaPool : item' = Extracted(m.src, m)
    /\ Says("")
    /\ pc' = "exists_check"
    /\ UNCHANGED playerVars
    /\ UNCHANGED <<mainVars, pageVars, err, diskVars, dlVars, histVars>>

\* lines 75-88: an element went away while it was read
ReadRaises ==
    /\ pc = "read"
    /\ err' = "read"
    /\ Says("")
    /\ pc' = "except"
    /\ UNCHANGED playerVars
    /\ UNCHANGED <<mainVars, pageVars, item, diskVars, dlVars, histVars>>

\* lines 100-101
AlreadyDownloaded ==
    /\ pc = "exists_check"
    /\ FileExists(filepath)
    /\ tally' = [tally EXCEPT !.found = TRUE]
    /\ Says("already-downloaded")
    /\ pc' = "meta"
    /\ UNCHANGED playerVars
    /\ UNCHANGED <<mainVars, pageVars, item, err, diskVars, dlVars, requests,
                   served_ids, first_repeat, attempted, shown>>

\* lines 102-103: download_mp3 is called
CallDownload ==
    /\ pc = "exists_check"
    /\ ~FileExists(filepath)
    /\ Says("")
    /\ pc' = "download"
    /\ UNCHANGED progVars

----------------------------------------------------------------------------
(* download_mp3, lines 28-36.                                              *)

Statuses == {200, 404}
Body(mp3_url) == <<"body">> \o mp3_url
Truncated == << >>

\* the body is written whatever the status
FilesAfterResponse_AnyStatus(code, fs, path, body) == Written(fs, path, body)

\* lines 31-33: the file system after a response whose body was read
FilesAfterResponse(code, fs, path, body) ==
    IF code = 200 THEN Written(fs, path, body) ELSE fs

\* lines 34, 36
DownloadReport(code) ==
    IF code = 200 THEN "downloaded" ELSE "failed-to-download"

\* download_mp3 raises on a status other than 200
AfterResponse_RaiseForStatus(code) == IF code = 200 THEN "meta" ELSE "except"

\* what follows in the caller when download_mp3 returns after a response
AfterResponse(code) == "meta"

\* lines 29-36: a response arrives and download_mp3 returns
DownloadReturns ==
    /\ pc = "download"
    /\ \E code \in Statuses :
          /\ status' = code
          /\ files' = FilesAfterResponse(code, files, filepath,
                                         Body(item.mp3_url))
          /\ Says(DownloadReport(code))
          /\ pc' = AfterResponse(code)
          /\ err' = IF AfterResponse(code) = "except" THEN "status" ELSE err
    /\ dl_result' = "None"
    /\ tally' = [tally EXCEPT !.fetch = "returned"]
    /\ UNCHANGED playerVars
    /\ UNCHANGED <<mainVars, pageVars, item, metadata, failed, requests,
                   served_ids, first_repeat, attempted, shown>>

\* lines 29-32: the request raises (no connection), or open(path) does
DownloadRaises ==
    /\ pc = "download"
    /\ err' = "download"
    /\ tally' = [tally EXCEPT !.fetch = "raised"]
    /\ Says("")
    /\ pc' = "except"
    /\ UNCHANGED playerVars
    /\ UNCHANGED <<mainVars, pageVars, item, diskVars, dlVars, requests,
                   served_ids, first_repeat, attempted, shown>>

\* lines 32-33: the status is 200 and the file is opened for writing, then
\* reading the body raises
DownloadBodyRaises ==
    /\ pc = "download"
    /\ status' = 200
    /\ files' = Written(files, filepath, Truncated)
    /\ err' = "body-read"
    /\ tally' = [tally EXCEPT !.fetch = "raised"]
    /\ Says("")
    /\ pc' = "except"
    /\ UNCHANGED playerVars
    /\ UNCHANGED <<mainVars, pageVars, item, metadata, failed, dl_result,
                   requests, served_ids, first_repeat, attempted, shown>>

----------------------------------------------------------------------------
(* scrape_media_items, lines 105-123: the logs.                            *)

MetadataBlock ==
    [log |-> PathJoin(folder, <<"metadata.txt">>),
     filename |-> item.filename, title |-> item.title, date |-> item.date,
     speaker |-> item.speaker, series |-> item.series,
     mp3_url |-> item.mp3_url]

FailedBlock ==
    [log |-> PathJoin(folder, <<"failed.txt">>),
     item |-> idx + 1, url |-> url, error |-> err]

\* lines 105-113
WriteMetadata ==
    /\ pc = "meta"
    /\ metadata' = Appended(metadata, folder)
    /\ appended' = MetadataBlock
    /\ printed' = ""
    /\ tally' = [tally EXCEPT !.meta = @ + 1]
    /\ pc' = "sleep"
    /\ UNCHANGED playerVars
    /\ UNCHANGED <<mainVars, pageVars, item, err, files, failed, dlVars,
                   requests, served_ids, first_repeat, attempted, shown>>

\* line 106: metadata.txt cannot be opened
WriteMetadataRaises ==
    /\ pc = "meta"
    /\ err' = "metadata-write"
    /\ Says("")
    /\ pc' = "except"
    /\ UNCHANGED playerVars
    /\ UNCHANGED <<mainVars, pageVars, item, diskVars, dlVars, histVars>>

\* line 115, then the next card
Sleep ==
    /\ pc = "sleep"
    /\ idx' = idx + 1
    /\ item' = NoItem
    /\ status' = 0
    /\ dl_result' = ""
    /\ Says("")
    /\ pc' = "item"
    /\ UNCHANGED playerVars
    /\ UNCHANGED <<mainVars, page_num, seen_ids, url, media_buttons,
                   media_ids, err, diskVars, histVars>>

\* the exception of a card leaves scrape_media_items
AfterItemError_Propagates == "cat_except"

\* where control goes once the handler of lines 117-123 has run
AfterItemError == "item"

\* lines 117-123, then the next card
ItemFailed ==
    /\ pc = "except"
    /\ printed' = "error-processing-item"
    /\ failed' = Appended(failed, folder)
    /\ appended' = FailedBlock
    /\ err' = ""
    /\ idx' = idx + 1
    /\ item' = NoItem
    /\ status' = 0
    /\ dl_result' = ""
    /\ tally' = [tally EXCEPT !.failed = @ + 1, !.error = err]
    /\ pc' = AfterItemError
    /\ UNCHANGED playerVars
    /\ UNCHANGED <<mainVars, page_num, seen_ids, url, media_buttons,
                   media_ids, files, metadata, requests, served_ids,
                   first_repeat, attempted, shown>>

----------------------------------------------------------------------------
(* The specifications.                                                     *)

Next ==
    \/ GetSubpages \/ DiscoverRaises \/ StartCatalog \/ CatalogFailed
    \/ BrowserClose
    \/ Goto \/ GotoRaises \/ WaitCardsTimeout \/ ServePage
    \/ RepeatDetected \/ Break \/ NewPage \/ NextPage
    \/ Click \/ ClickRaises \/ WaitPlayer \/ WaitPlayerTimeout
    \/ ReadFields \/ ReadRaises \/ AlreadyDownloaded \/ CallDownload
    \/ DownloadReturns \/ DownloadRaises \/ DownloadBodyRaises
    \/ WriteMetadata \/ WriteMetadataRaises \/ Sleep \/ ItemFailed

\* The discoverer on every entry page of LinkLists, followed by runs in
\* which the first page of every catalog fails to load.
NextDiscover ==
    \/ GetSubpages \/ DiscoverRaises \/ StartCatalog \/ GotoRaises
    \/ CatalogFailed \/ BrowserClose

SpecDiscover == InitDiscover /\ [][NextDiscover]_vars

\* A whole run on an entry page of CrawlLinks.  What the player shows when
\* the values are read is left open: ReadFields reads any item of the site.
Spec == Init /\ [][Next]_vars

----------------------------------------------------------------------------
(* scrape_media_items, lines 65-88, with the media player of the page.    *)
(* The one page is used for every card; a click returns once the event    *)
(* is delivered, and the script of the page puts the clicked item into    *)
(* the player some time later.                                             *)

\* lines 67-68: the card is clicked; the player update is still to come
ClickCard ==
    /\ pc = "item"
    /\ idx < Len(media_buttons)
    /\ \E m \in MediaPool : own' = m
    /\ pending' = TRUE
    /\ attempted' = Append(attempted, idx)
    /\ tally' = NoTally
    /\ Says("")
    /\ pc' = "wait_player"
    /\ UNCHANGED <<player, mainVars, pageVars, item, err, diskVars, dlVars,
                   requests, served_ids, first_repeat, shown>>

\* the script of the page: the clicked item is put into the player
PlayerUpdate ==
    /\ pending
    /\ player' = own
    /\ pending' = FALSE
    /\ Says("")
    /\ UNCHANGED <<own, pc, mainVars, pageVars, item, err, diskVars, dlVars,
                   histVars>>

\* lines 70-73: the predicate of wait_for_function holds of the player
SourceIsMp3(p) == HasSubstring(p.src, <<".mp3">>)
WaitPlayerShown ==
    /\ pc = "wait_player"
    /\ SourceIsMp3(player)
    /\ Says("")
    /\ pc' = "read"
    /\ UNCHANGED progVars

\* lines 75-76: the source URL is read from the player
ReadSource ==
    /\ pc = "read"
    /\ item' = [NoItem EXCEPT !.mp3_url = player.src]
    /\ Says("")
    /\ pc' = "read_texts"
    /\ UNCHANGED playerVars
    /\ UNCHANGED <<mainVars, pageVars, err, diskVars, dlVars, histVars>>

\* lines 78-98: the texts are read from the player, the file name is
\* derived
ReadTexts ==
    /\ pc = "read_texts"
    /\ item' = Extracted(item.mp3_url, player)
    /\ Says("")
    /\ pc' = "exists_check"
    /\ UNCHANGED playerVars
    /\ UNCHANGED <<mainVars, pageVars, err, diskVars, dlVars, histVars>>

\* The crawl of one catalog with the player of the page, in runs where
\* pages load and clicks, reads and log writes do not raise.
InitPlayer == InitWith({<< <<Scheme, Domain, "/", "media">> >>})
NextPlayer ==
    \/ GetSubpages \/ StartCatalog \/ BrowserClose
    \/ Goto \/ ServePage \/ RepeatDetected \/ Break \/ NewPage \/ NextPage
    \/ ClickCard \/ PlayerUpdate \/ WaitPlayerShown \/ WaitPlayerTimeout
    \/ ReadSource \/ ReadTexts \/ AlreadyDownloaded \/ CallDownload
    \/ DownloadReturns \/ WriteMetadata \/ Sleep \/ ItemFailed
SpecPlayer == InitPlayer /\ [][NextPlayer]_vars

----------------------------------------------------------------------------
(* sanitize_filename and get_date_slug on their own, lines 19-26.          *)

\* The texts sanitize_filename is given: white space, punctuation, words.
\* The empty text stands for both values `text or "untitled"` replaces,
\* None and "".
TextTokens == {" ", "!", "-", "Grace"}
TextPool == UNION {[1..n -> TextTokens] : n \in 0..MaxText}

\* The texts get_date_slug is given: a month, a day, a comma and a year
\* with white space around and between them, and texts of no such shape.
BlankRuns == {[i \in 1..n |-> " "] : n \in 0..MaxBlanks}
DatePool ==
    { pre \o <<m>> \o s1 \o <<d>> \o c \o s2 \o <<y>> \o post :
         pre \in {<< >>, <<" ">>}, m \in {"March", "march", "February", "Mar"},
         s1 \in BlankRuns, d \in {"3", "03", "17", "30", "0"},
         c \in {<<",">>, <<" ", ",">>, << >>}, s2 \in BlankRuns,
         y \in {"2024", "24"}, post \in {<< >>, <<" ">>} }
    \cup { << >>, <<" ">>, <<"garbage">>,
           <<"March", " ", "3", ",", " ", "2024", " ", "garbage">> }

\* a call with the argument in item, before anything else has happened
InitAt(loc, it) ==
    /\ links = << >>
    /\ subpages = << >>
    /\ cat = 0
    /\ pc = loc
    /\ page_num = 0
    /\ seen_ids = {}
    /\ url = << >>
    /\ media_buttons = << >>
    /\ media_ids = << >>
    /\ idx = 0
    /\ item = it
    /\ err = ""
    /\ files = << >>
    /\ metadata = << >>
    /\ failed = << >>
    /\ appended = NoBlock
    /\ printed = ""
    /\ status = 0
    /\ dl_result = ""
    /\ requests = << >>
    /\ served_ids = {}
    /\ first_repeat = 0
    /\ attempted = << >>
    /\ started = << >>
    /\ shown = 0
    /\ aborted = {}
    /\ tally = NoTally
    /\ player = NoPlayer
    /\ pending = FALSE
    /\ own = NoPlayer

InitSanitize ==
    \E text \in TextPool : InitAt("sanitize", [NoItem EXCEPT !.title = text])
InitDate ==
    \E text \in DatePool : InitAt("date_slug", [NoItem EXCEPT !.date = text])

\* line 91: clean_title = sanitize_filename(title)
CleanTitle ==
    /\ pc = "sanitize"
    /\ item' = [item EXCEPT !.clean_title = sanitize_filename(item.title)]
    /\ Says("")
    /\ pc' = "sanitized"
    /\ UNCHANGED playerVars
    /\ UNCHANGED <<mainVars, pageVars, err, diskVars, dlVars, histVars>>

\* line 94: date_slug = get_date_slug(date)
DateSlug ==
    /\ pc = "date_slug"
    /\ item' = [item EXCEPT !.date_slug = get_date_slug(item.date)]
    /\ Says("")
    /\ pc' = "date_slugged"
    /\ UNCHANGED playerVars
    /\ UNCHANGED <<mainVars, pageVars, err, diskVars, dlVars, histVars>>

NextSanitize == CleanTitle
SpecSanitize == InitSanitize /\ [][NextSanitize]_vars

NextDate == DateSlug
SpecDate == InitDate /\ [][NextDate]_vars

----------------------------------------------------------------------------
(* Properties.                                                             *)

InCatalog == cat >= 1 /\ pc \notin {"discover", "crashed", "closed"}
Positions(n) == [k \in 1..n |-> k - 1]

\* C1: pagination of a catalog stops at the first page N that shares an
\* identifier with the pages served before it: pages 1..N were requested
\* in that order and no other, every card of pages 1..N-1 was passed to
\* extraction, no card of page N was, and one shared identifier suffices.
C1_StopsAtFirstRepeat ==
    /\ first_repeat # 0 =>
          /\ pc \in {"check_repeat", "stopped"}
          /\ Len(requests) = first_repeat
          /\ page_num = first_repeat
          /\ attempted = << >>
    /\ pc = "stopped" => first_repeat = Len(requests)
    /\ cat >= 1 =>
          \A k \in 1..Len(requests) :
             requests[k] = IF k = 1 THEN subpages[cat]
                           ELSE subpages[cat] \o <<"?page=", Str(k)>>
    /\ (pc \in {"goto", "wait_cards"} /\ page_num > 1) =>
          attempted = Positions(Len(media_buttons))

\* C1 witness: the crawl stopped on page 3, which carries an identifier
\* seen before and one never seen.
C1_Witness ==
    /\ pc = "stopped"
    /\ page_num = 3
    /\ \E i \in 1..Len(media_ids) : media_ids[i] \in seen_ids
    /\ \E i \in 1..Len(media_ids) : media_ids[i] \notin seen_ids

\* C2: an exception at a card is caught; the handler appends one block to
\* the failed.txt of the catalog, naming the position and the error, and
\* the crawl goes on with the next card of the page; once all cards were
\* tried, the next page follows.
C2_ItemFailureContained ==
    /\ [][pc = "except" =>
            /\ pc' = "item"
            /\ idx' = idx + 1
            /\ media_buttons' = media_buttons
            /\ Count(failed', CatalogFolder(subpages[cat]))
                  = Count(failed, CatalogFolder(subpages[cat])) + 1
            /\ appended' =
                  [log |-> CatalogFolder(subpages[cat]) \o <<"/", "failed.txt">>,
                   item |-> idx + 1, url |-> url, error |-> err]
            /\ err # ""]_vars
    /\ [][(err = "" /\ err' # "" /\ pc \notin {"discover", "goto", "wait_cards"})
             => pc' = "except"]_vars
    /\ [](pc = "item" => attempted = Positions(idx))
    /\ [][(pc = "item" /\ idx < Len(media_buttons)) =>
             (attempted' = Append(attempted, idx))]_vars
    /\ [][(pc = "item" /\ idx >= Len(media_buttons)) =>
             (pc' = "goto" /\ page_num' = page_num + 1)]_vars

\* C2 witness: the first card of a page failed and the second one is
\* being extracted.
C2_Witness ==
    /\ pc = "wait_player"
    /\ idx = 1
    /\ tally = NoTally
    /\ page_num = 1
    /\ Count(failed, folder) = 1

\* C3: a failure of a catalog (navigation error, no card within the
\* timeout) ends that catalog only: the run goes on with the next catalog
\* of the list, and after the last one the browser is closed.
C3_CatalogFailureContained ==
    /\ [][pc = "cat_except" =>
            (pc' = "main_loop" /\ cat' = cat /\ subpages' = subpages)]_vars
    /\ [][(pc = "main_loop" /\ cat < Len(subpages)) =>
            (cat' = cat + 1 /\ pc' = "goto"
               /\ started' = Append(started, subpages[cat + 1]))]_vars
    /\ [][(pc = "main_loop" /\ cat >= Len(subpages)) => pc' = "closed"]_vars
    /\ [](pc = "closed" => started = subpages)
    /\ [](pc = "crashed" => cat = 0)
    /\ [](pc = "cat_except" => ENABLED CatalogFailed)
    /\ [](pc = "main_loop" => ENABLED (StartCatalog \/ BrowserClose))

\* C3 witness: the run closed the browser after the first catalog had
\* failed and the last one had been started.
C3_Witness ==
    /\ pc = "closed"
    /\ Len(subpages) >= 2
    /\ subpages[1] \in aborted
    /\ started = subpages

\* C4 as claimed: whenever the fetcher was invoked for a card, whatever
\* became of the fetch, one metadata block was appended for the card
\* (unless writing metadata.txt itself raised).
C4_RecordAfterAnyFetch ==
    (pc = "item" /\ tally.fetch # "no" /\ tally.error # "metadata-write")
       => tally.meta = 1

\* C4 as amended: with no file at the computed path the fetcher is
\* invoked; when it returns, on a 200 or a non-200 response, the metadata
\* write follows and appends exactly one block for the card; when it
\* raises, no metadata block is appended and the card gets one failed.txt
\* block.
C4_RecordAfterFetchReturns ==
    /\ [][(pc = "exists_check"
             /\ CatalogFolder(subpages[cat]) \o <<"/">> \o item.filename
                   \notin DOMAIN files) => pc' = "download"]_vars
    /\ [][(pc = "download" /\ status' # 0 /\ err' = "") => pc' = "meta"]_vars
    /\ [][(pc = "meta" /\ err' = "") =>
            /\ Count(metadata', CatalogFolder(subpages[cat]))
                  = Count(metadata, CatalogFolder(subpages[cat])) + 1
            /\ appended'.filename = item.filename
            /\ appended'.mp3_url = item.mp3_url]_vars
    /\ [](tally.fetch = "returned" =>
            /\ tally.error \in {"", "metadata-write"}
            /\ tally.meta <= 1
            /\ (pc = "item" /\ tally.error = "") =>
                  (tally.meta = 1 /\ tally.failed = 0))
    /\ [](tally.fetch = "raised" =>
            /\ tally.meta = 0
            /\ pc = "item" => (tally.failed = 1
                               /\ tally.error \in {"download", "body-read"}))

\* C4 witness: a card was handled whose fetch got a non-200 response, and
\* it has its one metadata block and no file.
C4_Witness ==
    /\ pc = "sleep"
    /\ status = 404
    /\ tally.fetch = "returned"
    /\ tally.meta = 1
    /\ filepath \notin DOMAIN files

\* C5: when extraction computes a file name whose file is present, the
\* fetcher is not invoked and the file is left as it is, and a metadata
\* block is appended all the same: an item extracted twice leaves one
\* asset file and two metadata blocks.
C5_SecondRunSkipsDownload ==
    /\ [][(pc = "exists_check"
             /\ CatalogFolder(subpages[cat]) \o <<"/">> \o item.filename
                   \in DOMAIN files)
            => (pc' = "meta" /\ tally'.found /\ files' = files
                  /\ printed' = "already-downloaded")]_vars
    /\ [][tally'.found => files' = files]_vars
    /\ [](tally.found => (tally.fetch = "no" /\ status = 0))
    /\ []((pc = "item" /\ tally.found /\ tally.error = "") => tally.meta = 1)
    /\ [][(pc = "exists_check" /\ pc' = "download") =>
             CatalogFolder(subpages[cat]) \o <<"/">> \o item.filename
                \notin DOMAIN files]_vars

\* C5 witness: the same item was extracted a second time; its file is the
\* one the first extraction wrote and metadata.txt holds two blocks.
C5_Witness ==
    /\ pc = "sleep"
    /\ tally.found
    /\ tally.meta = 1
    /\ files[filepath] = Body(item.mp3_url)
    /\ Count(metadata, folder) = 2
    /\ appended.filename = item.filename

\* C6 as claimed: download_mp3 hands its caller an outcome, Success or
\* Failure.
C6_ReturnsOutcome ==
    dl_result \in {"", "Success", "Failure"}

\* C6 as amended: download_mp3 returns None whatever happened and reports
\* the outcome as a printed line only: on a 200 response whose body is
\* read it writes the body to path and prints the Downloaded line; on a
\* non-200 response it prints the Failed line, leaves the file system
\* unchanged and raises nothing.
C6_ReportsByPrinting ==
    /\ [](dl_result \in {"", "None"})
    /\ [][(pc = "download" /\ status' = 200 /\ err' = "") =>
            /\ files' = [p \in DOMAIN files \cup {filepath} |->
                           IF p = filepath THEN <<"body">> \o item.mp3_url
                           ELSE files[p]]
            /\ printed' = "downloaded"
            /\ dl_result' = "None"]_vars
    /\ [][(pc = "download" /\ status' \notin {0, 200}) =>
            /\ files' = files
            /\ printed' = "failed-to-download"
            /\ dl_result' = "None"
            /\ err' = ""
            /\ pc' # "except"]_vars

\* C6 witness: download_mp3 returned after a non-200 response, with no
\* file at the path.
C6_Witness ==
    /\ pc = "meta"
    /\ status = 404
    /\ dl_result = "None"
    /\ printed = "failed-to-download"
    /\ filepath \notin DOMAIN files

\* C7: catalogs are processed in the sorted order of the list, one at a
\* time; the pages of a catalog are requested as 1, 2, 3, .. with none
\* skipped or repeated, page 1 at the base URL and page n > 1 at
\* base?page=n; the cards of a page are extracted in DOM order, one at a
\* time.
C7_ProcessingOrder ==
    /\ [](\A i, j \in 1..Len(subpages) : i < j => StrLess(subpages[i], subpages[j]))
    /\ [](started = SubSeq(subpages, 1, cat))
    /\ [][cat' # cat => (pc = "main_loop" /\ cat' = cat + 1)]_vars
    /\ [](cat >= 1 =>
            \A k \in 1..Len(requests) :
               requests[k] = IF k = 1 THEN subpages[cat]
                             ELSE subpages[cat] \o <<"?page=", Str(k)>>)
    /\ [](InCatalog =>
            Len(requests) = IF pc = "goto" THEN page_num - 1 ELSE page_num)
    /\ [](\A k \in 1..Len(attempted) : attempted[k] = k - 1)
    /\ [][attempted' # attempted =>
            \/ attempted' = << >>
            \/ pc = "item" /\ attempted' = Append(attempted, Len(attempted))]_vars

\* C7 witness: in the second catalog the second page has been requested
\* after the cards of its first page were extracted in order.
C7_Witness ==
    /\ cat = 2
    /\ pc = "wait_cards"
    /\ requests = <<subpages[2], subpages[2] \o <<"?page=", "2">>>>
    /\ attempted = <<0, 1>>

Discovered == pc \notin {"discover", "crashed"}

\* C8 as claimed: the list returned by get_subpages is sorted, free of
\* duplicates and holds no URL of the entry page: none on the site's host
\* whose path, trailing slashes dropped, is the path of START_URL.
C8_NoEntryPageNoDuplicates ==
    Discovered =>
       /\ \A i, j \in 1..Len(subpages) :
             i < j => StrLess(subpages[i], subpages[j])
       /\ \A i \in 1..Len(subpages) :
             ~ /\ UrlNetloc(subpages[i]) = UrlNetloc(START_URL)
               /\ RStripSlash(UrlPath(subpages[i]))
                     = RStripSlash(UrlPath(START_URL))

\* C9 as claimed: every URL returned by get_subpages has the site's own
\* domain as its host.
C9_SameHostOnly ==
    Discovered =>
       \A i \in 1..Len(subpages) : UrlNetloc(subpages[i]) = <<Domain>>

\* C10 as claimed: two different catalogs of the list never get the same
\* output folder.
C10_FoldersExclusive ==
    \A i, j \in 1..Len(started) :
       i # j => CatalogFolder(started[i]) # CatalogFolder(started[j])

\* C11 as claimed: with the browser, the context and the page open (the
\* initial state of the model), no failure ends the run abnormally: the
\* run never leaves main by an exception.
C11_OnlySessionOpenFatal ==
    pc # "crashed"

\* C12 as claimed: sanitize_filename never returns the empty string, and
\* for a text of white space only it returns `untitled`.
C12_NeverEmpty ==
    pc = "sanitized" =>
       /\ item.clean_title # << >>
       /\ (item.title # << >> /\ \A i \in 1..Len(item.title) : item.title[i] = " ")
             => item.clean_title = <<"untitled">>

NonBlank(t) == SelectSeq(t, LAMBDA x : x # " ")
UnknownDate == <<"unknown", "-", "date">>

\* "Month DD, YYYY" to the letter: a capitalised month name, one blank, the
\* day, a comma, one blank, the year
LiteralDate(t) ==
    /\ Len(t) = 6
    /\ t[1] \in {"February", "March", "April"}
    /\ t[2] = " " /\ t[3] \in {"3", "03", "17", "30"}
    /\ t[4] = "," /\ t[5] = " " /\ t[6] = "2024"

\* the text without the white space around it
Inner(t) ==
    LET used == {i \in 1..Len(t) : t[i] # " "}
    IN  IF used = {} THEN << >>
        ELSE SubSeq(t, CHOOSE i \in used : \A j \in used : i <= j,
                       CHOOSE i \in used : \A j \in used : j <= i)

ExpectedMonth(tok) ==
    CASE tok \in {"February", "february"} -> "02"
      [] tok \in {"March", "march"} -> "03"
      [] OTHER -> "none"
ExpectedDay(tok) ==
    CASE tok \in {"3", "03"} -> "03" [] tok = "17" -> "17"
      [] tok = "30" -> "30" [] OTHER -> "none"
\* a text strptime accepts for "%B %d, %Y": month, day, comma and year and
\* nothing else but white space, some of it after the month and after the
\* comma and none between the day and the comma, the day one the month has
Accepted(t) ==
    LET n == NonBlank(t)
        at == [k \in 1..4 |->
                 CHOOSE i \in 1..Len(t) :
                    /\ t[i] # " "
                    /\ Cardinality({j \in 1..i : t[j] # " "}) = k]
    IN  /\ Len(n) = 4
        /\ ExpectedMonth(n[1]) # "none"
        /\ ExpectedDay(n[2]) # "none"
        /\ n[3] = ","
        /\ n[4] = "2024"
        /\ at[2] > at[1] + 1
        /\ at[3] = at[2] + 1
        /\ at[4] > at[3] + 1
        /\ ~(ExpectedMonth(n[1]) = "02" /\ n[2] = "30")

IdsOf(ids) == {ids[i] : i \in 1..Len(ids)}

\* C14: during the crawl of a catalog seen_ids is the union of the
\* identifiers of the pages passed to extraction: empty until page 1 is
\* passed on, grown by all identifiers of a page when that page is passed
\* on and changed by nothing else, so it never loses an element and never
\* takes up the identifiers of the page that stopped the crawl; every
\* catalog starts from the empty set, so its page 1 is never a repeat.
C14_SeenIdsIsUnionOfExtractedPages ==
    /\ []((pc \in {"goto", "wait_cards", "check_repeat"} /\ page_num = 1)
            => seen_ids = {})
    /\ [][(pc = "check_repeat" /\ pc' = "item")
            => seen_ids' = seen_ids \cup IdsOf(media_ids)]_vars
    /\ [][(pc = "check_repeat" /\ IdsOf(media_ids) \cap seen_ids = {})
            => pc' = "item"]_vars
    /\ [][(pc = "check_repeat" /\ pc' = "stopped")
            => seen_ids' = seen_ids]_vars
    /\ [][(cat' = cat /\ pc' \notin {"main_loop", "crashed"})
            => seen_ids \subseteq seen_ids']_vars
    /\ [][seen_ids' # seen_ids
            => \/ pc = "check_repeat" /\ pc' = "item"
               \/ pc' = "main_loop" /\ seen_ids' = {}]_vars
    /\ []((InCatalog /\ pc \notin {"main_loop", "cat_except", "goto",
                                    "wait_cards", "check_repeat", "stopped"})
            => seen_ids = served_ids)
    /\ [](pc = "stopped" =>
            /\ seen_ids \cup IdsOf(media_ids) = served_ids
            /\ page_num >= 2)
    /\ [][cat' # cat => seen_ids' = {}]_vars

\* C14 witness: the second catalog, started after the first one had a
\* card extracted, stopped on its page 2, which carries an identifier that
\* is not in seen_ids.
C14_Witness ==
    /\ pc = "stopped"
    /\ cat = 2
    /\ page_num = 2
    /\ Count(metadata, CatalogFolder(subpages[1])) = 1
    /\ Cardinality(seen_ids) = 1
    /\ \E i \in 1..Len(media_ids) : media_ids[i] \notin seen_ids

\* The identifiers a catalog can serve: the data-id values and the
\* positional ones.
IdPool ==
    {<<c.data_id>> : c \in {x \in CardPool : x.has_id}}
       \cup {<<"idx-", Str(i)>> : i \in 0..(MaxItems - 1)}

\* What is left until the next page is passed to extraction or the crawl
\* ends: ten per card not handled yet, the steps left for the card in
\* hand, and the loading of the next page.
StepsLeft ==
    CASE pc = "item"         -> 10 * (Len(media_buttons) - idx) + 12
      [] pc = "wait_player"  -> 10 * (Len(media_buttons) - idx) + 11
      [] pc = "read"         -> 10 * (Len(media_buttons) - idx) + 10
      [] pc = "exists_check" -> 10 * (Len(media_buttons) - idx) + 9
      [] pc = "download"     -> 10 * (Len(media_buttons) - idx) + 8
      [] pc = "meta"         -> 10 * (Len(media_buttons) - idx) + 7
      [] pc = "sleep"        -> 10 * (Len(media_buttons) - idx) + 6
      [] pc = "except"       -> 10 * (Len(media_buttons) - idx) + 5
      [] pc = "goto"         -> 2
      [] pc = "wait_cards"   -> 1
      [] OTHER               -> 0

\* A bound on the steps left in the crawl of the catalog: a full page for
\* every identifier not seen yet and one more for the page that stops it.
CrawlVariant ==
    (Cardinality(IdPool \ seen_ids) + 1) * (10 * MaxItems + 14) + StepsLeft

\* C15: the crawl of a catalog ends, by a repeat or by a page that fails
\* to load, after at most (distinct identifiers served + 1) page loads:
\* a page that is passed to extraction has a card and makes seen_ids
\* larger; every step of the crawl lowers a bound on the steps left that
\* is never negative, and at every point of the page loop a step can be
\* taken.
C15_CrawlTerminates ==
    /\ [](InCatalog => Len(requests) <= Cardinality(served_ids) + 1)
    /\ [](InCatalog => page_num <= Cardinality(seen_ids) + 1)
    /\ [](served_ids \subseteq IdPool)
    /\ [][(pc = "check_repeat" /\ pc' = "item") =>
            /\ Len(media_buttons) >= 1
            /\ Cardinality(seen_ids') > Cardinality(seen_ids)]_vars
    /\ [][(InCatalog /\ pc' = "main_loop") =>
             pc \in {"stopped", "cat_except"}]_vars
    /\ [][pc' = "cat_except" => pc \in {"goto", "wait_cards"}]_vars
    /\ [][(InCatalog /\ pc \notin {"main_loop", "stopped", "cat_except"})
            => (CrawlVariant' < CrawlVariant \/ pc' \in {"stopped", "cat_except"})]_vars
    /\ [](InCatalog => CrawlVariant >= 0)
    /\ [](pc = "goto" => ENABLED Goto)
    /\ [](pc = "wait_cards" => ENABLED WaitCardsTimeout)
    /\ [](pc = "check_repeat" => ENABLED (RepeatDetected \/ NewPage))
    /\ [](pc = "item" => ENABLED (ClickRaises \/ NextPage))
    /\ [](pc = "stopped" => ENABLED Break)
    /\ [](pc = "cat_except" => ENABLED CatalogFailed)

\* C15 witness: a catalog that served two identifiers was left after its
\* third page was loaded.
C15_Witness ==
    /\ pc = "stopped"
    /\ Cardinality(served_ids) = 2
    /\ Len(requests) = 3

PositionalIds == {<<"idx-", Str(i)>> : i \in 0..(MaxItems - 1)}
\* no card served for the catalog so far had a data-id
NoDataIdSoFar == InCatalog /\ served_ids \subseteq PositionalIds

\* C16: a card without data-id gets the identifier idx-<position>, from
\* idx-0 on; in a catalog whose cards have no data-id, page 1 puts idx-0
\* into seen_ids, every later page that shows a card is a repeat, and no
\* card of a page n >= 2 is passed to extraction.
C16_PositionalIdsStopAtPageTwo ==
    /\ [](/\ Len(media_ids) = Len(media_buttons)
          /\ \A i \in 1..Len(media_buttons) :
                ~media_buttons[i].has_id
                   => media_ids[i] = <<"idx-", Str(i - 1)>>)
    /\ []((NoDataIdSoFar /\ seen_ids # {}) => <<"idx-", "0">> \in seen_ids)
    /\ []((NoDataIdSoFar /\ page_num >= 2) =>
            /\ pc \in {"goto", "wait_cards", "check_repeat", "stopped",
                       "cat_except"}
            /\ pc \in {"check_repeat", "stopped"} => attempted = << >>)
    /\ [][(NoDataIdSoFar /\ pc = "check_repeat" /\ page_num >= 2)
            => pc' = "stopped"]_vars
    /\ [][(NoDataIdSoFar /\ attempted' # attempted /\ attempted' # << >>)
            => page_num = 1]_vars

\* C16 witness: in a catalog without data-id the crawl stopped on page 2,
\* which shows a second card that page 1 did not have.
C16_Witness ==
    /\ pc = "stopped"
    /\ page_num = 2
    /\ served_ids = {<<"idx-", "0">>, <<"idx-", "1">>}
    /\ seen_ids = {<<"idx-", "0">>}
    /\ Len(media_buttons) = 2
    /\ attempted = << >>

\* C17 as claimed: the values recorded for a card (asset URL, title,
\* date, speaker, series) are the ones the activation of that very card
\* puts into the player.
C17_RecordsOwnPlayer ==
    (pc = "sleep" /\ tally.meta = 1) =>
       /\ item.mp3_url = own.src
       /\ item.title = ReadTitle(own, idx)
       /\ item.date = ReadDate(own)
       /\ item.speaker = ReadSpeaker(own)
       /\ item.series = ReadSeries(own)

\* C18 as claimed: every file at an asset path holds the complete body of
\* a fetch that got a 200 response; in particular the file an extraction
\* finds and takes as downloaded does.
C18_FilesAreComplete ==
    \A p \in DOMAIN files :
       \E m \in MediaPool : files[p] = <<"body">> \o m.src

RECURSIVE Blocks(_)
\* the blocks of a log over all folders
Blocks(log) ==
    IF DOMAIN log = {} THEN 0
    ELSE LET f == CHOOSE x \in DOMAIN log : TRUE
         IN  log[f] + Blocks([g \in DOMAIN log \ {f} |-> log[g]])

\* the cards of the page in hand that have no block yet
CardsToLog ==
    CASE pc = "check_repeat" ->
           IF \E i \in 1..Len(media_ids) : media_ids[i] \in seen_ids
           THEN 0 ELSE Len(media_buttons)
      [] pc \in {"item", "wait_player", "read", "exists_check", "download",
                 "meta", "except"} -> Len(media_buttons) - idx
      [] pc = "sleep" -> Len(media_buttons) - idx - 1
      [] OTHER -> 0

\* C19: a card that was handled has one block, in metadata.txt when the
\* metadata write was reached and done and in failed.txt when an exception
\* came first, never both and never none; the blocks go to the folder of
\* the catalog, and the blocks written in the run are as many as the cards
\* of the pages passed to extraction that were handled so far.
C19_OneBlockPerCard ==
    /\ []((pc = "item" /\ idx >= 1) =>
            /\ tally.meta + tally.failed = 1
            /\ tally.failed = 1 <=> tally.error # "")
    /\ [][pc' = "sleep" =>
            /\ Count(metadata', CatalogFolder(subpages[cat]))
                  = Count(metadata, CatalogFolder(subpages[cat])) + 1
            /\ Blocks(metadata') = Blocks(metadata) + 1
            /\ failed' = failed]_vars
    /\ [][(pc = "except" /\ pc' # "except") =>
            /\ Count(failed', CatalogFolder(subpages[cat]))
                  = Count(failed, CatalogFolder(subpages[cat])) + 1
            /\ Blocks(failed') = Blocks(failed) + 1
            /\ metadata' = metadata]_vars
    /\ [][(metadata' # metadata \/ failed' # failed) =>
             idx' = IF pc' = "sleep" THEN idx ELSE idx + 1]_vars
    /\ [][idx' = idx + 1 => pc \in {"sleep", "except"}]_vars
    /\ [](Blocks(metadata) + Blocks(failed) = shown - CardsToLog)

\* C19 witness: a page of two cards was handled, one card has a metadata
\* block and the other a failure block.
C19_Witness ==
    /\ pc = "goto"
    /\ page_num = 2
    /\ shown = 2
    /\ Count(metadata, folder) = 1
    /\ Count(failed, folder) = 1

====
